---- MODULE Spec2Model ----
(***************************************************************************)
(* JSON-with-comments formatter (json_with_comments.py).                   *)
(*                                                                         *)
(* Text is a sequence of one-character strings.  Indices i, start, pos are *)
(* 0-based as in the source; Ch and Slice translate to TLA+'s 1-based      *)
(* sequences.                                                              *)
(***************************************************************************)
EXTENDS Integers, Sequences, FiniteSets, TLC

VARIABLES
    raw,         \* the text handed to the function under analysis
    pc,          \* position in the pipeline
    st,          \* _strip_json_comments: its loop state (out_chars is `cleaned`)
    tokens,      \* _tokenize_json_with_comments: tokens produced so far
    ti,          \* _tokenize_json_with_comments: i
    data,        \* json.loads(cleaned): <<value>>, or <<>> text0 it returned
    pieces,      \* _pretty_print_tokens_with_comments: pieces
    indent,      \* _pretty_print_tokens_with_comments: indent
    k,           \* number of tokens the printer's for loop has handled
    formatted,   \* the text _format_json_with_comments returned
    error_info,  \* the error_info it returned: <<>> for None, else <<record>>
    pass,        \* 1: first run of the command; 2: the command run again on its output
    first,       \* what the first run was given and what it returned
    view,        \* the host view: its text, selection, status, phantoms, timers
    regions,     \* run: list(_iter_target_regions(view))
    ri,          \* run: number of regions the for loop has handled
    error_infos, \* run: error_infos
    text0       \* the view's text when the command was invoked

vars == <<raw, pc, st, tokens, ti, data, pieces, indent, k, formatted, error_info,
          pass, first, view, regions, ri, error_infos, text0>>

host_vars == <<view, regions, ri, error_infos, text0>>

\* the host command is not running
host_idle ==
    /\ view = [text |-> <<>>, sel |-> <<>>, status |-> <<>>, phantoms |-> <<>>,
              timers |-> 0]
    /\ regions = <<>>
    /\ ri = 0
    /\ error_infos = <<>>
    /\ text0 = <<>>

scan_vars == <<data, pieces, indent, k, formatted, error_info, pass, first>>

(***************************************************************************)
(* Bounds                                                                  *)
(***************************************************************************)
MaxLen == 4          \* longest raw character string enumerated
MaxSkeleton == 7     \* longest JSON text (without trivia) enumerated
MaxTrivia == 1       \* most comments / whitespace runs inserted into a JSON text

(***************************************************************************)
(* Text helpers                                                            *)
(***************************************************************************)
Ch(src, i) == src[i + 1]

Slice(src, a, b) == SubSeq(src, a + 1, b)

RECURSIVE Join(_)
Join(parts) ==
    IF parts = <<>> THEN <<>> ELSE Head(parts) \o Join(Tail(parts))

\* str.isspace over the characters of the model
isspace(c) == c \in {" ", "\n", "\r"}

nxt_of(src, i) == IF i + 1 < Len(src) THEN Ch(src, i + 1) ELSE ""

\* index (1-based) of the last non-space character of part, 0 when there is none
LastNonSpace(part) ==
    LET S == {j \in 1..Len(part) : ~isspace(part[j])}
    IN  IF S = {} THEN 0 ELSE CHOOSE j \in S : \A m \in S : m <= j

FirstNonSpace(part) ==
    LET S == {j \in 1..Len(part) : ~isspace(part[j])}
    IN  IF S = {} THEN Len(part) + 1 ELSE CHOOSE j \in S : \A m \in S : j <= m

\* str.rstrip, str.lstrip, str.strip
rstrip(text) == SubSeq(text, 1, LastNonSpace(text))

lstrip(text) == SubSeq(text, FirstNonSpace(text), Len(text))

strip(text) == lstrip(rstrip(text))

startswith(text, prefix) ==
    Len(text) >= Len(prefix) /\ SubSeq(text, 1, Len(prefix)) = prefix

(***************************************************************************)
(* _strip_json_comments                                                    *)
(***************************************************************************)
strip_init ==
    [ i |-> 0, in_string |-> FALSE, string_delim |-> "", escape |-> FALSE,
      in_line_comment |-> FALSE, in_block_comment |-> FALSE, out_chars |-> <<>> ]

\* one iteration of `while i < length`
strip_iter(src, s) ==
    LET ch  == Ch(src, s.i)
        nxt == nxt_of(src, s.i)
    IN  IF s.in_line_comment THEN
            IF ch \in {"\n", "\r"}
            THEN [s EXCEPT !.in_line_comment = FALSE,
                           !.out_chars = Append(@, ch), !.i = @ + 1]
            ELSE [s EXCEPT !.i = @ + 1]
        ELSE IF s.in_block_comment THEN
            IF ch = "*" /\ nxt = "/"
            THEN [s EXCEPT !.in_block_comment = FALSE, !.i = @ + 2]
            ELSE [s EXCEPT !.i = @ + 1]
        ELSE IF s.in_string THEN
            IF s.escape
            THEN [s EXCEPT !.out_chars = Append(@, ch), !.escape = FALSE, !.i = @ + 1]
            ELSE IF ch = "\\"
            THEN [s EXCEPT !.out_chars = Append(@, ch), !.escape = TRUE, !.i = @ + 1]
            ELSE IF ch = s.string_delim
            THEN [s EXCEPT !.out_chars = Append(@, ch), !.in_string = FALSE, !.i = @ + 1]
            ELSE [s EXCEPT !.out_chars = Append(@, ch), !.i = @ + 1]
        ELSE IF ch \in {"'", "\""} THEN
            [s EXCEPT !.in_string = TRUE, !.string_delim = ch,
                      !.out_chars = Append(@, ch), !.i = @ + 1]
        ELSE IF ch = "/" /\ nxt = "/" THEN
            [s EXCEPT !.in_line_comment = TRUE, !.i = @ + 2]
        ELSE IF ch = "/" /\ nxt = "*" THEN
            [s EXCEPT !.in_block_comment = TRUE, !.i = @ + 2]
        ELSE
            [s EXCEPT !.out_chars = Append(@, ch), !.i = @ + 1]

RECURSIVE strip_loop(_, _)
strip_loop(src, s) ==
    IF s.i < Len(src) THEN strip_loop(src, strip_iter(src, s)) ELSE s

strip_json_comments(src) == strip_loop(src, strip_init).out_chars

(***************************************************************************)
(* _Token and _tokenize_json_with_comments                                 *)
(***************************************************************************)
\* a tokenizer that stores each token's text trimmed
Token_trimmed(kind, value) == [kind |-> kind, value |-> strip(value)]

Token(kind, value) == [kind |-> kind, value |-> value]

Punct == {"{", "}", "[", "]", ":", ","}

\* `while i < length and src[i].isspace()`
RECURSIVE ws_end(_, _)
ws_end(src, i) ==
    IF i < Len(src) /\ isspace(Ch(src, i)) THEN ws_end(src, i + 1) ELSE i

\* a string loop that takes every delimiter as the closing one
RECURSIVE string_end_no_escape(_, _, _, _)
string_end_no_escape(src, i, delim, escape) ==
    IF i < Len(src) THEN
        IF Ch(src, i) = delim THEN i + 1
        ELSE string_end_no_escape(src, i + 1, delim, escape)
    ELSE i

\* the string loop: returns i after it
RECURSIVE string_end(_, _, _, _)
string_end(src, i, delim, escape) ==
    IF i < Len(src) THEN
        LET c == Ch(src, i) IN
        IF escape THEN string_end(src, i + 1, delim, FALSE)
        ELSE IF c = "\\" THEN string_end(src, i + 1, delim, TRUE)
        ELSE IF c = delim THEN i + 1
        ELSE string_end(src, i + 1, delim, escape)
    ELSE i

\* `while i < length and src[i] not in ("\n", "\r")`
RECURSIVE line_comment_end(_, _)
line_comment_end(src, i) ==
    IF i < Len(src) /\ Ch(src, i) \notin {"\n", "\r"}
    THEN line_comment_end(src, i + 1) ELSE i

\* `while i < length - 1 and not (src[i] == "*" and src[i + 1] == "/")`
RECURSIVE block_comment_scan(_, _)
block_comment_scan(src, i) ==
    IF i < Len(src) - 1 /\ ~(Ch(src, i) = "*" /\ Ch(src, i + 1) = "/")
    THEN block_comment_scan(src, i + 1) ELSE i

block_comment_end(src, i) ==
    LET j == block_comment_scan(src, i) IN
    IF j < Len(src) - 1 THEN j + 2 ELSE j

\* the literal loop
RECURSIVE literal_end(_, _)
literal_end(src, i) ==
    IF i < Len(src) THEN
        LET c == Ch(src, i)
            c_next == nxt_of(src, i)
        IN  IF isspace(c) THEN i
            ELSE IF c \in Punct THEN i
            ELSE IF c = "/" /\ c_next \in {"/", "*"} THEN i
            ELSE IF c \in {"'", "\""} THEN i
            ELSE literal_end(src, i + 1)
    ELSE i

\* one iteration of `while i < length`: the token appended and the new i
tokenize_iter(src, i) ==
    LET ch  == Ch(src, i)
        nxt == nxt_of(src, i)
        mk(kind, j) == [tok |-> Token(kind, Slice(src, i, j)), i |-> j]
    IN  IF isspace(ch) THEN mk("ws", ws_end(src, i + 1))
        ELSE IF ch \in {"'", "\""} THEN mk("string", string_end(src, i + 1, ch, FALSE))
        ELSE IF ch = "/" /\ nxt = "/" THEN mk("comment", line_comment_end(src, i + 2))
        ELSE IF ch = "/" /\ nxt = "*" THEN mk("comment", block_comment_end(src, i + 2))
        ELSE IF ch \in Punct THEN mk("punct", i + 1)
        ELSE mk("literal", literal_end(src, i + 1))

RECURSIVE tokenize_loop(_, _, _)
tokenize_loop(src, i, toks) ==
    IF i < Len(src)
    THEN LET r == tokenize_iter(src, i) IN tokenize_loop(src, r.i, Append(toks, r.tok))
    ELSE toks

tokenize_json_with_comments(src) == tokenize_loop(src, 0, <<>>)

(***************************************************************************)
(* json.loads(cleaned), the validator _format_json_with_comments calls,    *)
(* over the characters of the model: whitespace, strings with the escapes  *)
(* \" \\ \/, numbers written with the digit 1, arrays and objects.  A      *)
(* failure carries the message and position of the ValueError.             *)
(***************************************************************************)
JsonOk(v, i) == [ok |-> TRUE, val |-> v, i |-> i, msg |-> ""]

JsonFail(msg, i) == [ok |-> FALSE, val |-> <<>>, i |-> i, msg |-> msg]

RECURSIVE json_ws(_, _)
json_ws(s, i) ==
    IF i < Len(s) /\ Ch(s, i) \in {" ", "\n", "\r"} THEN json_ws(s, i + 1) ELSE i

\* scanstring: i is past the opening quote at begin; acc is the decoded content
RECURSIVE json_string(_, _, _, _)
json_string(s, begin, i, acc) ==
    IF ~(i < Len(s)) THEN JsonFail("Unterminated string starting at", begin)
    ELSE LET c == Ch(s, i) IN
        IF c = "\"" THEN JsonOk(acc, i + 1)
        ELSE IF c = "\\" THEN
            IF ~(i + 1 < Len(s)) THEN JsonFail("Unterminated string starting at", begin)
            ELSE IF Ch(s, i + 1) \in {"\"", "\\", "/"}
            THEN json_string(s, begin, i + 2, Append(acc, Ch(s, i + 1)))
            ELSE JsonFail("Invalid \\escape", i)
        ELSE IF c \in {"\n", "\r"} THEN JsonFail("Invalid control character at", i)
        ELSE json_string(s, begin, i + 1, Append(acc, c))

RECURSIVE json_digits_end(_, _)
json_digits_end(s, i) ==
    IF i < Len(s) /\ Ch(s, i) = "1" THEN json_digits_end(s, i + 1) ELSE i

\* the object with key bound to v (a later duplicate key replaces an earlier one)
JsonPut(obj, key, v) ==
    [x \in (DOMAIN obj) \cup {key} |-> IF x = key THEN v ELSE obj[x]]

RECURSIVE json_value(_, _), json_array_items(_, _, _), json_object_items(_, _, _)

\* scan_once at i
json_value(s, i) ==
    IF ~(i < Len(s)) THEN JsonFail("Expecting value", i)
    ELSE LET c == Ch(s, i) IN
        IF c = "\"" THEN
            LET r == json_string(s, i, i + 1, <<>>) IN
            IF r.ok THEN JsonOk(<<"str", r.val>>, r.i) ELSE r
        ELSE IF c = "{" THEN
            LET j == json_ws(s, i + 1) IN
            IF j < Len(s) /\ Ch(s, j) = "}" THEN JsonOk(<<"obj", <<>>>>, j + 1)
            ELSE json_object_items(s, j, <<>>)
        ELSE IF c = "[" THEN
            LET j == json_ws(s, i + 1) IN
            IF j < Len(s) /\ Ch(s, j) = "]" THEN JsonOk(<<"arr", <<>>>>, j + 1)
            ELSE json_array_items(s, j, <<>>)
        ELSE IF c = "1" THEN
            LET j == json_digits_end(s, i) IN JsonOk(<<"num", Slice(s, i, j)>>, j)
        ELSE JsonFail("Expecting value", i)

\* the array loop: i is where the next element starts
json_array_items(s, i, acc) ==
    LET r == json_value(s, i) IN
    IF ~r.ok THEN r
    ELSE LET j == json_ws(s, r.i)
             acc2 == Append(acc, r.val)
         IN  IF j < Len(s) /\ Ch(s, j) = "]" THEN JsonOk(<<"arr", acc2>>, j + 1)
             ELSE IF j < Len(s) /\ Ch(s, j) = ","
             THEN json_array_items(s, json_ws(s, j + 1), acc2)
             ELSE JsonFail("Expecting ',' delimiter", j)

\* the object loop: i is where the next key starts
json_object_items(s, i, obj) ==
    IF ~(i < Len(s) /\ Ch(s, i) = "\"")
    THEN JsonFail("Expecting property name enclosed in double quotes", i)
    ELSE LET key == json_string(s, i, i + 1, <<>>) IN
        IF ~key.ok THEN key
        ELSE LET j == json_ws(s, key.i) IN
            IF ~(j < Len(s) /\ Ch(s, j) = ":") THEN JsonFail("Expecting ':' delimiter", j)
            ELSE LET r == json_value(s, json_ws(s, j + 1)) IN
                IF ~r.ok THEN r
                ELSE LET e == json_ws(s, r.i)
                         obj2 == JsonPut(obj, key.val, r.val)
                     IN  IF e < Len(s) /\ Ch(s, e) = "}" THEN JsonOk(<<"obj", obj2>>, e + 1)
                         ELSE IF e < Len(s) /\ Ch(s, e) = ","
                         THEN json_object_items(s, json_ws(s, e + 1), obj2)
                         ELSE JsonFail("Expecting ',' delimiter", e)

json_loads(s) ==
    LET r == json_value(s, json_ws(s, 0)) IN
    IF ~r.ok THEN r
    ELSE LET e == json_ws(s, r.i) IN
         IF e = Len(s) THEN r ELSE JsonFail("Extra data", e)

\* str(exc): "<msg>: line <lineno> column <colno> (char <pos>)"
json_error_text(s, r) ==
    LET nl == {j \in 1..r.i : s[j] = "\n"}
        last == IF nl = {} THEN 0 ELSE CHOOSE j \in nl : \A m \in nl : m <= j
    IN  [msg |-> r.msg, lineno |-> Cardinality(nl) + 1, colno |-> r.i - last + 1,
         pos |-> r.i]

(***************************************************************************)
(* _pretty_print_tokens_with_comments.  ps is the list `pieces` of       *)
(* strings written so far, ind the current `indent`.                               *)
(***************************************************************************)
indent_step == 4

Spaces(n) == [j \in 1..n |-> " "]

Front(s) == SubSeq(s, 1, Len(s) - 1)

\* str.splitlines(True): a line ends after "\n", after "\r\n", or after a lone "\r"
RECURSIVE splitlines(_, _, _)
splitlines(text, start, j) ==
    IF j > Len(text) THEN
        IF start > Len(text) THEN <<>> ELSE <<SubSeq(text, start, Len(text))>>
    ELSE IF text[j] = "\n" \/ (text[j] = "\r" /\ ~(j < Len(text) /\ text[j + 1] = "\n"))
    THEN <<SubSeq(text, start, j)>> \o splitlines(text, j + 1, j + 1)
    ELSE splitlines(text, start, j + 1)

RECURSIVE last_non_space_char(_)
last_non_space_char(ps) ==
    IF ps = <<>> THEN ""
    ELSE LET part == ps[Len(ps)]
             j == LastNonSpace(part)
         IN  IF j > 0 THEN part[j] ELSE last_non_space_char(Front(ps))

write(ps, text) == Append(ps, text)

write_newline_and_indent(ps, ind) ==
    write(write(ps, <<"\n">>), Spaces(ind * indent_step))

RECURSIVE strip_trailing_whitespace(_)
strip_trailing_whitespace(ps) ==
    IF ps = <<>> THEN ps
    ELSE LET part == ps[Len(ps)]
             j == LastNonSpace(part)
         IN  IF j = 0 THEN strip_trailing_whitespace(Front(ps))
             ELSE IF j = Len(part) THEN ps
             ELSE [ps EXCEPT ![Len(ps)] = SubSeq(part, 1, j)]

\* the reversed scan of at_line_start over the characters written, from position j
RECURSIVE at_line_start_scan(_, _)
at_line_start_scan(text, j) ==
    IF j = 0 THEN FALSE
    ELSE IF text[j] = "\n" THEN TRUE
    ELSE IF ~isspace(text[j]) THEN FALSE
    ELSE at_line_start_scan(text, j - 1)

at_line_start(ps) ==
    LET text == Join(ps) IN
    IF text = <<>> THEN TRUE ELSE at_line_start_scan(text, Len(text))

\* `for idx, line in enumerate(lines)` of the comment branch
RECURSIVE write_comment_lines(_, _, _, _)
write_comment_lines(ps, lines, idx, ind) ==
    IF idx > Len(lines) THEN ps
    ELSE LET p1 == IF idx > 1 THEN write(ps, Spaces(ind * indent_step)) ELSE ps
         IN  write_comment_lines(write(p1, lines[idx]), lines, idx + 1, ind)

print_comment(ps, ind, val) ==
    LET prev_char == last_non_space_char(ps)
        is_line_comment == startswith(lstrip(val), <<"/", "/">>)
        has_newline == \E j \in 1..Len(val) : val[j] \in {"\n", "\r"}
    IN  IF is_line_comment /\ ~has_newline /\ prev_char \notin {"", "\n"} THEN
            write_newline_and_indent(
                write(write(strip_trailing_whitespace(ps), <<" ">>), strip(val)),
                ind)
        ELSE
            LET p1 == IF ps = <<>> \/ prev_char # "\n"
                      THEN write_newline_and_indent(ps, ind) ELSE ps
                lines == splitlines(val, 1, 1)
                p2 == write_comment_lines(p1, lines, 1, ind)
                ends == lines # <<>> /\ lines[Len(lines)][Len(lines[Len(lines)])] \in {"\n", "\r"}
            IN  IF ~ends THEN write(p2, <<"\n">>) ELSE p2

\* the punct branch: the new pieces and indent
print_punct(ps, ind, ch) ==
    IF ch \in {"{", "["} THEN
        LET prev == last_non_space_char(ps)
            p1 == IF prev = ":" THEN write(ps, <<" ">>) ELSE ps
        IN  [pieces |-> write_newline_and_indent(write(p1, <<ch>>), ind + 1),
             indent |-> ind + 1]
    ELSE IF ch \in {"}", "]"} THEN
        LET lower == IF ind - 1 > 0 THEN ind - 1 ELSE 0
            prev == last_non_space_char(ps)
        IN  IF prev \in {"", "{", "["}
            THEN [pieces |-> write(ps, <<ch>>), indent |-> lower]
            ELSE [pieces |-> write(write_newline_and_indent(ps, lower), <<ch>>),
                  indent |-> lower]
    ELSE IF ch = ","
    THEN [pieces |-> write_newline_and_indent(write(ps, <<",">>), ind),
          indent |-> ind]
    ELSE [pieces |-> write(ps, <<":", " ">>), indent |-> ind]

\* the string/literal branch
print_value(ps, val) ==
    LET prev == last_non_space_char(ps)
        p1 == IF ~at_line_start(ps) /\ prev # "" /\ prev \notin {"{", "[", ":", ","}
              THEN write(ps, <<" ">>) ELSE ps
    IN  write(p1, val)

\* the body of `for tok in tokens`
print_token(ps, ind, tok) ==
    IF tok.kind = "ws" THEN [pieces |-> ps, indent |-> ind]
    ELSE IF tok.kind = "comment"
    THEN [pieces |-> print_comment(ps, ind, tok.value), indent |-> ind]
    ELSE IF tok.kind = "punct" THEN print_punct(ps, ind, tok.value[1])
    ELSE [pieces |-> print_value(ps, tok.value), indent |-> ind]

\* lines after the loop that leave the trailing white space in place
print_result_untrimmed(ps, newline_at_end) ==
    IF newline_at_end THEN Join(ps) \o <<"\n">> ELSE Join(ps)

\* the lines after the loop
print_result(ps, newline_at_end) ==
    LET result == rstrip(Join(ps))
    IN  IF newline_at_end THEN result \o <<"\n">> ELSE result

RECURSIVE print_loop(_, _, _, _)
print_loop(toks, n, ps, ind) ==
    IF n < Len(toks)
    THEN LET r == print_token(ps, ind, toks[n + 1])
         IN  print_loop(toks, n + 1, r.pieces, r.indent)
    ELSE ps

pretty_print_tokens_with_comments(toks, newline_at_end) ==
    print_result(print_loop(toks, 0, <<>>, 0), newline_at_end)

endswith_newline(text) == text # <<>> /\ text[Len(text)] = "\n"

\* _format_json_with_comments as one function: [text, error]
format_json_with_comments(text) ==
    LET cleaned == strip_json_comments(text)
        r == json_loads(cleaned)
    IN  IF ~r.ok THEN [text |-> text, error |-> <<json_error_text(cleaned, r)>>]
        ELSE [text |-> pretty_print_tokens_with_comments(
                           tokenize_json_with_comments(text), endswith_newline(text)),
              error |-> <<>>]

(***************************************************************************)
(* Inputs                                                                  *)
(***************************************************************************)
ScanAlphabet == {"\"", "'", "\\", "/", "*", "\n", "1", ","}

\* every text of at most MaxLen characters of ScanAlphabet
RawInputs == UNION {[1..n -> ScanAlphabet] : n \in 0..MaxLen}

\* JSON texts without whitespace, by length: the numbers 1 and 11, the empty
\* string, arrays, and objects whose keys are the empty string
RECURSIVE Values(_), Elements(_), Members(_)
Values(n) ==
    (IF n \in 1..2 THEN {[j \in 1..n |-> "1"]} ELSE {})
    \cup (IF n = 2 THEN {<<"\"", "\"">>} ELSE {})
    \cup (IF n >= 2 THEN {<<"[">> \o e \o <<"]">> : e \in Elements(n - 2)}
                         \cup {<<"{">> \o m \o <<"}">> : m \in Members(n - 2)}
          ELSE {})

Elements(n) ==
    IF n = 0 THEN {<<>>}
    ELSE Values(n)
         \cup UNION {{v \o <<",">> \o e : v \in Values(a), e \in Elements(n - 1 - a) \ {<<>>}}
                     : a \in 1..(n - 2)}

Members(n) ==
    IF n = 0 THEN {<<>>}
    ELSE IF n < 4 THEN {}
    ELSE {<<"\"", "\"", ":">> \o v : v \in Values(n - 3)}
         \cup UNION {{<<"\"", "\"", ":">> \o v \o <<",">> \o m :
                          v \in Values(a), m \in Members(n - 4 - a) \ {<<>>}}
                      : a \in 1..(n - 4)}

Skeletons == UNION {Values(n) : n \in 1..MaxSkeleton}

\* comments and line ends a user may put anywhere in a document
Trivia ==
    { <<"/", "/", "a", "\n">>, <<"/", "*", "a", "\n", "a", "*", "/">>, <<"\n">>, <<"\r">> }

InsertAt(d, g, t) == SubSeq(d, 1, g) \o t \o SubSeq(d, g + 1, Len(d))

\* d with at most m pieces of Trivia inserted, each at any position
RECURSIVE Decorated(_, _)
Decorated(d, m) ==
    IF m = 0 THEN {d}
    ELSE {d} \cup UNION {Decorated(InsertAt(d, g, t), m - 1) : g \in 0..Len(d), t \in Trivia}

(***************************************************************************)
(* The scanners alone, on arbitrary text: the stripper to the end of the   *)
(* text, then the tokenizer, one loop iteration per step.                  *)
(***************************************************************************)
no_first == [raw |-> <<>>, formatted |-> <<>>, data |-> <<>>, tokens |-> <<>>]

ScanInit ==
    /\ raw \in RawInputs
    /\ pc = "strip"
    /\ st = strip_init
    /\ tokens = <<>>
    /\ ti = 0
    /\ data = <<>>
    /\ pieces = <<>>
    /\ indent = 0
    /\ k = 0
    /\ formatted = <<>>
    /\ error_info = <<>>
    /\ pass = 1
    /\ first = no_first
    /\ host_idle

StripIter ==
    /\ pc = "strip"
    /\ st.i < Len(raw)
    /\ st' = strip_iter(raw, st)
    /\ UNCHANGED <<raw, pc, tokens, ti>>
    /\ UNCHANGED scan_vars
    /\ UNCHANGED host_vars

StripReturn ==
    /\ pc = "strip"
    /\ ~(st.i < Len(raw))
    /\ pc' = "tokenize"
    /\ UNCHANGED <<raw, st, tokens, ti>>
    /\ UNCHANGED scan_vars
    /\ UNCHANGED host_vars

TokenizeIter ==
    /\ pc = "tokenize"
    /\ ti < Len(raw)
    /\ LET r == tokenize_iter(raw, ti) IN
        /\ tokens' = Append(tokens, r.tok)
        /\ ti' = r.i
    /\ UNCHANGED <<raw, pc, st>>
    /\ UNCHANGED scan_vars
    /\ UNCHANGED host_vars

TokenizeReturn ==
    /\ pc = "tokenize"
    /\ ~(ti < Len(raw))
    /\ pc' = "scanned"
    /\ UNCHANGED <<raw, st, tokens, ti>>
    /\ UNCHANGED scan_vars
    /\ UNCHANGED host_vars

ScanNext == StripIter \/ StripReturn \/ TokenizeIter \/ TokenizeReturn

ScanSpec == ScanInit /\ [][ScanNext]_vars

(***************************************************************************)
(* Properties of the scanners (ScanSpec)                                   *)
(***************************************************************************)
TokenValues(toks) == [n \in 1..Len(toks) |-> toks[n].value]

\* 0-based offset in the text of token n, given the tokens before it
RECURSIVE TokenStart(_, _)
TokenStart(toks, n) ==
    IF n <= 1 THEN 0 ELSE TokenStart(toks, n - 1) + Len(toks[n - 1].value)

MinOf(set) == CHOOSE j \in set : \A m \in set : j <= m

\* C4: the tokens produced so far concatenate to exactly the text consumed so
\* far, none is empty, the index never passes the end of the text, and when
\* the loop has ended the whole text is consumed (so the loop ends after at
\* most Len(raw) iterations, on any text).
C4_Lossless ==
    /\ Join(TokenValues(tokens)) = SubSeq(raw, 1, ti)
    /\ \A n \in 1..Len(tokens) : tokens[n].value # <<>>
    /\ Len(tokens) <= ti
    /\ ti <= Len(raw)
    /\ pc = "scanned" => ti = Len(raw)

\* an unterminated string was tokenized, after other tokens
C4_Witness ==
    /\ pc = "scanned"
    /\ Len(tokens) >= 2
    /\ LET v == tokens[Len(tokens)].value IN
        /\ tokens[Len(tokens)].kind = "string"
        /\ Len(v) = 1 \/ v[Len(v)] # v[1]

\* 0-based position of the first "*/" at or after from, -1 when there is none
BlockClose(src, from) ==
    LET set == {j \in from..(Len(src) - 2) : Ch(src, j) = "*" /\ Ch(src, j + 1) = "/"}
    IN  IF set = {} THEN 0 - 1 ELSE MinOf(set)

\* C8: a token that starts with "/*" is one comment token that runs through
\* the first closing "*/", or through the last character of the text when no
\* "*/" follows.
C8_BlockComment ==
    \A n \in 1..Len(tokens) :
        LET o == TokenStart(tokens, n)
            c == BlockClose(raw, o + 2)
        IN  (Ch(raw, o) = "/" /\ nxt_of(raw, o) = "*") =>
                /\ tokens[n].kind = "comment"
                /\ tokens[n].value = Slice(raw, o, IF c >= 0 THEN c + 2 ELSE Len(raw))

\* number of consecutive backslashes just before 0-based position j, from lo on
RECURSIVE BackslashRun(_, _, _)
BackslashRun(src, lo, j) ==
    IF j > lo /\ Ch(src, j - 1) = "\\" THEN 1 + BackslashRun(src, lo, j - 1) ELSE 0

\* the end (exclusive, 0-based) of the quoted span opened at o: just past the
\* first later occurrence of the same delimiter that is preceded by an even
\* number of backslashes with that span, or the end of the text
StringSpanEnd(src, o) ==
    LET set == {j \in (o + 1)..(Len(src) - 1) :
                    Ch(src, j) = Ch(src, o) /\ BackslashRun(src, o + 1, j) % 2 = 0}
    IN  IF set = {} THEN Len(src) ELSE MinOf(set) + 1

\* the tokenizer's half of C9
C9_Tokens ==
    \A n \in 1..Len(tokens) :
        LET o == TokenStart(tokens, n) IN
        Ch(raw, o) \in {"'", "\""} =>
            /\ tokens[n].kind = "string"
            /\ tokens[n].value = Slice(raw, o, StringSpanEnd(raw, o))

\* the stripper's half of C9: a step taken inside a string
C9_StripStep ==
    (pc = "strip" /\ st.in_string /\ st'.i # st.i) =>
        /\ st'.i = st.i + 1
        /\ st'.out_chars = Append(st.out_chars, Ch(raw, st.i))
        /\ ~st'.in_line_comment /\ ~st'.in_block_comment
        /\ st'.string_delim = st.string_delim
        /\ ~st'.in_string <=> (~st.escape /\ Ch(raw, st.i) = st.string_delim)

\* C9: inside a quoted string (opened by ' or ", closed only by an unescaped
\* occurrence of the same delimiter) no character starts a comment or a
\* punctuation token: the stripper emits each character of the span as it is,
\* and the tokenizer returns the span as one string token.
C9_StringOpacity == []C9_Tokens /\ [][C9_StripStep]_vars

\* a closed string holding "/*" or "//" was emitted whole by the stripper and
\* returned as the only token
C9_Witness ==
    /\ pc = "scanned"
    /\ Len(raw) = 4
    /\ raw[1] = "\"" /\ raw[2] = "/" /\ raw[3] \in {"/", "*"} /\ raw[4] = "\""
    /\ st.out_chars = raw
    /\ Len(tokens) = 1

(***************************************************************************)
(* _format_json_with_comments on a document, and the command run a second  *)
(* time on the text the first run put into the view.                       *)
(***************************************************************************)
Init ==
    /\ \/ raw \in Skeletons
       \/ \E sk \in Skeletons : raw \in Decorated(sk, MaxTrivia)
       \/ raw \in RawInputs
    /\ pc = "strip"
    /\ st = strip_init
    /\ tokens = <<>>
    /\ ti = 0
    /\ data = <<>>
    /\ pieces = <<>>
    /\ indent = 0
    /\ k = 0
    /\ formatted = <<>>
    /\ error_info = <<>>
    /\ pass = 1
    /\ first = no_first
    /\ host_idle

\* cleaned = _strip_json_comments(raw)
Strip ==
    /\ pc = "strip"
    /\ st' = strip_loop(raw, strip_init)
    /\ pc' = "loads"
    /\ UNCHANGED <<raw, tokens, ti, data, pieces, indent, k, formatted, error_info,
                   pass, first>>
    /\ UNCHANGED host_vars

\* data = json.loads(cleaned) returns
LoadsOk ==
    /\ pc = "loads"
    /\ LET r == json_loads(st.out_chars) IN
        /\ r.ok
        /\ data' = <<r.val>>
    /\ pc' = "tokenize"
    /\ UNCHANGED <<raw, st, tokens, ti, pieces, indent, k, formatted, error_info,
                   pass, first>>
    /\ UNCHANGED host_vars

\* the regular expression searches of the except branch; str(exc) is carried
\* as the record of its parts (text, line, column, char), which is what the
\* message spells out
error_info_of(exc) ==
    [message |-> exc, lineno |-> exc.lineno, colno |-> exc.colno, pos |-> exc.pos]

\* an except branch that returns the stripped text
LoadsRaises_cleaned ==
    /\ pc = "loads"
    /\ LET r == json_loads(st.out_chars) IN
        /\ ~r.ok
        /\ error_info' = <<error_info_of(json_error_text(st.out_chars, r))>>
    /\ formatted' = st.out_chars
    /\ pc' = "done"
    /\ UNCHANGED <<raw, st, tokens, ti, data, pieces, indent, k, pass, first>>
    /\ UNCHANGED host_vars

\* json.loads(cleaned) raises ValueError: return raw, error_info.  The second
\* handler (except Exception) returns raw with an error_info as well; json.loads
\* raises nothing but ValueError on the bounded texts, so it has no action.
LoadsRaises ==
    /\ pc = "loads"
    /\ LET r == json_loads(st.out_chars) IN
        /\ ~r.ok
        /\ error_info' = <<error_info_of(json_error_text(st.out_chars, r))>>
    /\ formatted' = raw
    /\ pc' = "done"
    /\ UNCHANGED <<raw, st, tokens, ti, data, pieces, indent, k, pass, first>>
    /\ UNCHANGED host_vars

\* tokens = _tokenize_json_with_comments(raw)
Tokenize ==
    /\ pc = "tokenize"
    /\ tokens' = tokenize_json_with_comments(raw)
    /\ ti' = Len(raw)
    /\ pc' = "print"
    /\ UNCHANGED <<raw, st, data, pieces, indent, k, formatted, error_info, pass, first>>
    /\ UNCHANGED host_vars

\* one iteration of the printer's `for tok in tokens`
PrintToken ==
    /\ pc = "print"
    /\ k < Len(tokens)
    /\ LET r == print_token(pieces, indent, tokens[k + 1]) IN
        /\ pieces' = r.pieces
        /\ indent' = r.indent
    /\ k' = k + 1
    /\ UNCHANGED <<raw, pc, st, tokens, ti, data, formatted, error_info, pass, first>>
    /\ UNCHANGED host_vars

\* the printer returns; return pretty, None
PrintReturn ==
    /\ pc = "print"
    /\ k = Len(tokens)
    /\ formatted' = print_result(pieces, endswith_newline(raw))
    /\ error_info' = <<>>
    /\ pc' = "done"
    /\ UNCHANGED <<raw, st, tokens, ti, data, pieces, indent, k, pass, first>>
    /\ UNCHANGED host_vars

\* the command is run again on the view, which now holds the formatted text
RunAgain ==
    /\ pc = "done"
    /\ pass = 1
    /\ error_info = <<>>
    /\ first' = [raw |-> raw, formatted |-> formatted, data |-> data, tokens |-> tokens]
    /\ raw' = formatted
    /\ pass' = 2
    /\ pc' = "strip"
    /\ st' = strip_init
    /\ tokens' = <<>>
    /\ ti' = 0
    /\ data' = <<>>
    /\ pieces' = <<>>
    /\ indent' = 0
    /\ k' = 0
    /\ formatted' = <<>>
    /\ UNCHANGED error_info
    /\ UNCHANGED host_vars

Next ==
    \/ Strip
    \/ LoadsOk
    \/ LoadsRaises
    \/ Tokenize
    \/ PrintToken
    \/ PrintReturn

Spec == Init /\ [][Next]_vars

AgainNext == Next \/ RunAgain

AgainSpec == Init /\ [][AgainNext]_vars

(***************************************************************************)
(* Properties of _format_json_with_comments (Spec, AgainSpec)              *)
(***************************************************************************)
Returned == pc = "done"

ReturnedText == pc = "done" /\ error_info = <<>>

IsComment(tok) == tok.kind = "comment"

\* the comment tokens' texts, trimmed
TrimmedComments(toks) ==
    LET cs == SelectSeq(toks, IsComment) IN [n \in 1..Len(cs) |-> strip(cs[n].value)]

\* C1: formatting the formatted text again returns the same text.
C1_Idempotent ==
    (pass = 2 /\ Returned) => formatted = first.formatted

\* C2: the formatted text, stripped of comments, is valid JSON and parses to
\* the value the stripped input parsed to.
C2_RoundTrip ==
    (pass = 2 /\ Returned) => (error_info = <<>> /\ data = first.data)

\* C3: every comment of the input, trimmed, is a comment of the formatted
\* text, and both have the same number of comments.
C3_CommentsPreserved ==
    ReturnedText =>
        LET cin  == TrimmedComments(tokens)
            cout == TrimmedComments(tokenize_json_with_comments(formatted))
        IN  /\ Len(cin) = Len(cout)
            /\ \A i \in 1..Len(cin) : \E j \in 1..Len(cout) : cout[j] = cin[i]

\* C5: when the validator rejects the stripped text the input comes back
\* unchanged with an error that carries the validator's message; when it
\* accepts, there is no error; an error never comes with another text.
C5_FailureNonMutation ==
    /\ error_info # <<>> => (Returned /\ formatted = raw)
    /\ Returned =>
        LET cleaned == strip_json_comments(raw)
            r == json_loads(cleaned)
        IN  IF r.ok THEN error_info = <<>>
            ELSE /\ formatted = raw
                 /\ error_info # <<>>
                 /\ error_info[1].message = json_error_text(cleaned, r)

\* a text with a comment was rejected
C5_Witness ==
    /\ Returned
    /\ error_info # <<>>
    /\ st.out_chars # raw
    /\ \E n \in 1..Len(tokenize_json_with_comments(raw)) :
           IsComment(tokenize_json_with_comments(raw)[n])

Opening(ch) == IF ch = "}" THEN "{" ELSE "["

\* C6: when the printer has handled a closing } or ] and the last non-space
\* character written before it is the matching opening character, the two
\* are adjacent in the output.
C6_CompactEmpty ==
    (pc = "print" /\ k >= 1 /\ tokens[k].kind = "punct"
        /\ tokens[k].value[1] \in {"}", "]"}
        /\ last_non_space_char(Front(pieces)) = Opening(tokens[k].value[1])) =>
        LET before == Join(Front(pieces))
        IN  before[Len(before)] = Opening(tokens[k].value[1])

\* C7: in the formatted text every ":" is followed by exactly one space and
\* then the value: a string, a literal, or an opening { or [.
C7_OneSpaceAfterColon ==
    ReturnedText =>
        LET out == tokenize_json_with_comments(formatted) IN
        \A n \in 1..Len(out) :
            out[n] = Token("punct", <<":">>) =>
                /\ n + 2 <= Len(out)
                /\ out[n + 1] = Token("ws", <<" ">>)
                /\ \/ out[n + 2].kind \in {"string", "literal"}
                   \/ out[n + 2] \in {Token("punct", <<"{">>), Token("punct", <<"[">>)}

\* C10: the formatted text ends with exactly one "\n" (the line break the
\* source tests for) after a non-space character when the input ends with
\* "\n", and with a non-space character when it does not.
C10_TrailingNewline ==
    ReturnedText =>
        LET n == Len(formatted) IN
        IF endswith_newline(raw)
        THEN n >= 2 /\ formatted[n] = "\n" /\ ~isspace(formatted[n - 1])
        ELSE n >= 1 /\ ~isspace(formatted[n])

\* an input ending with a line break was formatted, the printer's pieces
\* ending in white space
C10_Witness ==
    /\ ReturnedText
    /\ endswith_newline(raw)
    /\ Len(Join(pieces)) > Len(rstrip(Join(pieces)))
    /\ Len(tokens) >= 3

\* a comment the printer puts on a line of its own: a block comment, or a line
\* comment with nothing but white space written before it
Standalone(val, ps) ==
    startswith(val, <<"/", "*">>) \/ last_non_space_char(ps) = ""

\* the text a printer step adds to the text written so far
Written(ps, ps2) == SubSeq(Join(ps2), Len(Join(ps)) + 1, Len(Join(ps2)))

\* C12: when the printer handles a comment that is not simple-trailing, it
\* writes a line break and the indent before the comment only if the text
\* written so far is not at the start of a line; at the start of a line (the
\* first token, or directly after "," "{" "[") the comment is written at once.
C12_StandalonePlacement ==
    [][(pc = "print" /\ k' = k + 1 /\ tokens[k + 1].kind = "comment"
            /\ Standalone(tokens[k + 1].value, pieces)) =>
        IF at_line_start(pieces)
        THEN startswith(Written(pieces, pieces'), <<"/">>)
        ELSE startswith(Written(pieces, pieces'),
                        <<"\n">> \o Spaces(indent * indent_step) \o <<"/">>)]_vars

\* the number of containers open at token n of toks; a closing bracket counts
\* its own container as closed
OpenAt(toks, n) ==
    LET opened == {j \in 1..(n - 1) : toks[j].kind = "punct" /\ toks[j].value[1] \in {"{", "["}}
        closed == {j \in 1..n : toks[j].kind = "punct" /\ toks[j].value[1] \in {"}", "]"}}
    IN  Cardinality(opened) - Cardinality(closed)

\* what stands on the current line of text: the characters after its last line break
LineLead(text) ==
    LET brk == {j \in 1..Len(text) : text[j] \in {"\n", "\r"}}
        last == IF brk = {} THEN 0 ELSE CHOOSE j \in brk : \A m \in brk : m <= j
    IN  SubSeq(text, last + 1, Len(text))

\* the output up to the token a printer step writes
BeforeToken(ps, ps2) ==
    LET w == Written(ps, ps2) IN Join(ps) \o SubSeq(w, 1, FirstNonSpace(w) - 1)

\* a printer step on a string, literal or punctuation token whose text begins
\* an output line has exactly 4 * d spaces before it
C13_LineIndent ==
    (pc = "print" /\ k' = k + 1 /\ tokens[k + 1].kind \in {"string", "literal", "punct"}) =>
        LET lead == LineLead(BeforeToken(pieces, pieces'))
        IN  (\A j \in 1..Len(lead) : lead[j] = " ") =>
                Len(lead) = indent_step * OpenAt(tokens, k + 1)

\* C13: in the output for a valid input every line that begins with a string,
\* literal or punctuation token is indented by exactly 4 spaces per open
\* container, also after a block comment or a standalone line comment; indent
\* is never negative and is 0 after the last token.
C13_CanonicalIndentation ==
    /\ [][C13_LineIndent]_vars
    /\ [](indent >= 0)
    /\ [](ReturnedText => indent = 0)

(***************************************************************************)
(* The host command JsonWithCommentsPrettyCommand.run (RunSpec).  The view *)
(* is the host's buffer: substr and replace address it by offsets, a       *)
(* Region is a pair of offsets and a value (the list taken from the        *)
(* selection before the loop does not follow later edits), lines end at    *)
(* "\n".  How the host moves the live selection after a replacement is     *)
(* not read by the command; view.sel changes here only where the command   *)
(* sets it.                                                                *)
(***************************************************************************)
MaxRegions == 2      \* most regions in the selection

Region(a, b) == [a |-> a, b |-> b]

region_not_empty(r) == r.a # r.b

view_size(v) == Len(v.text)

\* an offset past the end of the buffer addresses its end
view_clamp(v, pt) == IF pt > Len(v.text) THEN Len(v.text) ELSE pt

view_substr(v, r) == Slice(v.text, view_clamp(v, r.a), view_clamp(v, r.b))

view_replace(v, r, text) ==
    [v EXCEPT !.text = Slice(@, 0, view_clamp(v, r.a)) \o text
                           \o Slice(@, view_clamp(v, r.b), Len(@))]

\* row of view.rowcol(pt)
view_row(v, pt) == Cardinality({j \in 1..view_clamp(v, pt) : v.text[j] = "\n"})

\* offsets at which a line of the buffer starts
view_line_starts(v) == {0} \cup {j \in 1..Len(v.text) : v.text[j] = "\n"}

\* view.text_point(row, 0); a row past the last addresses the end of the buffer
view_text_point(v, row) ==
    LET starts == view_line_starts(v)
    IN  IF row >= Cardinality(starts) THEN Len(v.text)
        ELSE CHOOSE p \in starts : Cardinality({q \in starts : q < p}) = row

\* view.line(pt): the line holding pt, without its line break
view_line(v, pt) ==
    LET starts == {p \in view_line_starts(v) : p <= pt}
        ends == {j - 1 : j \in {m \in 1..Len(v.text) : v.text[m] = "\n" /\ m - 1 >= pt}}
    IN  Region(CHOOSE p \in starts : \A q \in starts : q <= p,
               IF ends = {} THEN Len(v.text)
               ELSE CHOOSE p \in ends : \A q \in ends : p <= q)

iter_target_regions(v) ==
    LET non_empty == SelectSeq(v.sel, region_not_empty)
    IN  IF non_empty # <<>> THEN non_empty ELSE <<Region(0, view_size(v))>>

\* error_info['region'] = region
error_with_region(info, region) ==
    [message |-> info.message, lineno |-> info.lineno, colno |-> info.colno,
     pos |-> info.pos, region |-> region]

\* one iteration of `for region in list(_iter_target_regions(view))`
run_region(v, infos, region) ==
    LET original == view_substr(v, region)
        f == format_json_with_comments(original)
    IN  IF f.error # <<>>
        THEN [view |-> v,
              error_infos |-> Append(infos,
                                  error_with_region(error_info_of(f.error[1]), region))]
        ELSE [view |-> IF f.text # original THEN view_replace(v, region, f.text) ELSE v,
              error_infos |-> infos]

contains(text, sub) ==
    \E j \in 1..(Len(text) - Len(sub) + 1) : SubSeq(text, j, j + Len(sub) - 1) = sub

\* a line the heuristic counts as a comment line
is_comment_line(orig_line) ==
    LET stripped == strip(orig_line)
    IN  startswith(stripped, <<"/", "/">>) \/ contains(stripped, <<"/", "*">>)

\* the line number shown: the error line plus the comment lines before it
original_line_num(info, original) ==
    LET cleaned_lines == splitlines(strip_json_comments(original), 1, 1)
        original_lines == splitlines(original, 1, 1)
        line_num == info.lineno
        upto == IF line_num < Len(original_lines) THEN line_num ELSE Len(original_lines)
        comment_line_count ==
            Cardinality({j \in 1..upto : is_comment_line(original_lines[j])})
    IN  IF line_num <= Len(cleaned_lines)
        THEN IF line_num + comment_line_count > Len(original_lines)
             THEN line_num
             ELSE line_num + comment_line_count
        ELSE line_num

\* error_msg.split(":")[0] of the validator's messages
main_msg(msg) == IF msg = "Expecting ':' delimiter" THEN "Expecting '" ELSE msg

\* error_message; json.loads always gives a line and a column, so the two
\* branches without them are not taken.  form "main" is
\* "<main_msg>: line L column C (char P)", form "line" is "Line L column C: <message>"
error_message(info, original) ==
    LET msg == info.message.msg
        line == original_line_num(info, original)
    IN  IF msg \in {"Expecting value", "Expecting ',' delimiter",
                    "Expecting ':' delimiter",
                    "Expecting property name enclosed in double quotes",
                    "Invalid \\escape", "Invalid control character at",
                    "Unterminated string starting at"}
        THEN [form |-> "main", text |-> main_msg(msg), line |-> line,
              col |-> info.colno, pos |-> info.pos]
        ELSE [form |-> "line", text |-> msg, line |-> line,
              col |-> info.colno, pos |-> info.pos]

\* `if error_infos:` after the loop: status, selection and phantom for the
\* first error.  arrow_offset counts half rems.  rowcol, text_point and line
\* raise nothing, so the bare `except:` fallback has no case.  The escaping of "<", ">", "&" changes none of the messages.
run_report(v, infos) ==
    LET info == infos[1]
        region == info.region
        original == view_substr(v, region)
        target_row == view_row(v, region.a) + (info.lineno - 1)
        line_start == view_text_point(v, target_row)
        line_region == view_line(v, line_start)
        error_col == info.colno - 1
        shown == line_start < view_size(v)
    IN  [v EXCEPT
            !.status = <<[lineno |-> info.lineno, colno |-> info.colno]>>,
            !.sel = IF shown THEN <<line_region>> ELSE @,
            !.phantoms = IF shown
                         THEN <<[pos |-> line_region.b,
                                 arrow_offset |-> IF error_col > 1 THEN error_col ELSE 1,
                                 message |-> error_message(info, original)]>>
                         ELSE <<>>,
            !.timers = @ + 1]

\* buffers: one or two of these pieces
RunPieces ==
    { <<"[", "1", "]">>, <<"1">>, <<"[">>, <<",">>, <<"\n">>,
      <<"/", "*", "a", "*", "/">> }

RunDocs == RunPieces \cup {p \o q : p \in RunPieces, q \in RunPieces}

\* selections of at most n regions at or after offset from, in buffer order and
\* not overlapping; a region with a = b is a caret
RECURSIVE Selections(_, _, _)
Selections(from, size, n) ==
    IF n = 0 \/ from > size THEN {<<>>}
    ELSE {<<>>} \cup
         UNION {UNION {{<<Region(a, b)>> \o rest :
                           rest \in Selections(IF b > a THEN b ELSE b + 1, size, n - 1)} :
                       b \in a..size} :
                a \in from..size}

\* what an earlier run may have left in the view
StaleError == [lineno |-> 1, colno |-> 1]

RunInit ==
    /\ \E text \in RunDocs, stale \in BOOLEAN :
        \E sel \in Selections(0, Len(text), MaxRegions) :
            /\ view = [text |-> text, sel |-> sel,
                       status |-> IF stale THEN <<StaleError>> ELSE <<>>,
                       phantoms |-> IF stale THEN <<StaleError>> ELSE <<>>,
                       timers |-> 0]
            /\ text0 = text
    /\ regions = <<>>
    /\ ri = 0
    /\ error_infos = <<>>
    /\ pc = "invoked"
    /\ raw = <<>>
    /\ st = strip_init
    /\ tokens = <<>>
    /\ ti = 0
    /\ data = <<>>
    /\ pieces = <<>>
    /\ indent = 0
    /\ k = 0
    /\ formatted = <<>>
    /\ error_info = <<>>
    /\ pass = 1
    /\ first = no_first

format_vars == <<raw, st, tokens, ti, data, pieces, indent, k, formatted, error_info,
                 pass, first>>

\* erase_phantoms, erase_status, and the list of regions taken before the loop
RunBegin ==
    /\ pc = "invoked"
    /\ view' = [view EXCEPT !.phantoms = <<>>, !.status = <<>>]
    /\ regions' = iter_target_regions(view)
    /\ pc' = "run"
    /\ UNCHANGED <<ri, error_infos, text0>>
    /\ UNCHANGED format_vars

\* one iteration of the for loop
RunRegion ==
    /\ pc = "run"
    /\ ri < Len(regions)
    /\ LET r == run_region(view, error_infos, regions[ri + 1]) IN
        /\ view' = r.view
        /\ error_infos' = r.error_infos
    /\ ri' = ri + 1
    /\ UNCHANGED <<pc, regions, text0>>
    /\ UNCHANGED format_vars

\* after the loop: report the first error, if any, and return
RunReport ==
    /\ pc = "run"
    /\ ri = Len(regions)
    /\ view' = IF error_infos # <<>> THEN run_report(view, error_infos) ELSE view
    /\ pc' = "ran"
    /\ UNCHANGED <<regions, ri, error_infos, text0>>
    /\ UNCHANGED format_vars

\* clear_status, run by the host 8 seconds after set_timeout
clear_status ==
    /\ view.timers > 0
    /\ view' = [view EXCEPT !.status = <<>>, !.timers = @ - 1]
    /\ UNCHANGED <<pc, regions, ri, error_infos, text0>>
    /\ UNCHANGED format_vars

RunNext ==
    \/ RunBegin
    \/ RunRegion
    \/ RunReport
    \/ clear_status

RunSpec == RunInit /\ [][RunNext]_vars

(***************************************************************************)
(* Properties of the host command (RunSpec)                                *)
(***************************************************************************)
\* the buffer the claim describes: text outside the regions kept, a valid
\* region's text replaced by its formatted text, an invalid region's text kept
RECURSIVE regions_formatted(_, _, _)
regions_formatted(text, rs, from) ==
    IF rs = <<>> THEN Slice(text, from, Len(text))
    ELSE LET r == Head(rs)
             original == Slice(text, r.a, r.b)
             f == format_json_with_comments(original)
         IN  Slice(text, from, r.a)
                 \o (IF f.error = <<>> THEN f.text ELSE original)
                 \o regions_formatted(text, Tail(rs), r.b)

\* C11: when the command has run, every valid region of the invoked buffer is
\* replaced by the formatted text of its own original content, every invalid
\* region and all text outside the regions are unchanged.
C11_MultiRegion ==
    pc = "ran" => view.text = regions_formatted(text0, regions, 0)

====
